---- MODULE Spec2Model ----
(***************************************************************************)
(* Model of the multi-agent PRD reviewer: the ValidatorAgent (keyword      *)
(* scan and weighted score), its report formatter, and the orchestrator's  *)
(* review pipeline around the remote critique call.                         *)
(*                                                                         *)
(* Strings are sequences of one-character strings, so that lowercasing and *)
(* substring containment are computed, not assumed. The score is computed  *)
(* the way Python computes int(total_score / max_score * 100): a correctly *)
(* rounded binary64 division, a correctly rounded binary64 multiplication  *)
(* by 100.0, and a truncation.                                             *)
(***************************************************************************)
EXTENDS Integers, Sequences, FiniteSets, TLC

VARIABLES
    template,            \* self.template: the parsed YAML rubric (a dict)
    scoring,             \* self.scoring: template.get('scoring', {})
    pc,                  \* position of the caller (main / the test script)
    prd_text,            \* the document under review
    validation_results,  \* list of ValidationResult returned by validate
    score,               \* overall score returned by validate
    validation_report,   \* dict returned by format_report
    critique,            \* dict returned by SkepticAgent.challenge
    api_calls,           \* reports handed to client.messages.create, in order
    review,              \* dict returned by review_prd
    printed,             \* reviews written to the console by print_review
    saved,               \* reviews written to disk by save_review
    log,                 \* steps entered so far in this run, in order
    calls                \* every validate call so far: text, results, score

vars == <<template, scoring, pc, prd_text, validation_results, score,
          validation_report, critique, api_calls, review, printed, saved,
          log, calls>>

-----------------------------------------------------------------------------
(* Bounds of the model.                                                    *)

MaxSections == 2
MaxCalls == 3

-----------------------------------------------------------------------------
(* Python dictionaries and strings.                                        *)

\* dict.get(key, default)
DictGet(d, key, default) == IF key \in DOMAIN d THEN d[key] ELSE default

\* str.lower() on one character of the modelled alphabet
LowerChar(c) ==
    CASE c = "A" -> "a"
      [] c = "B" -> "b"
      [] OTHER -> c

\* str.lower()
Lower(s) == [i \in 1..Len(s) |-> LowerChar(s[i])]

\* Mutation of the containment test: the operands swapped.
ContainsSwapped(needle, haystack) ==
    \E i \in 0..(Len(needle) - Len(haystack)) :
        SubSeq(needle, i + 1, i + Len(haystack)) = haystack

\* needle in haystack, for str: the empty needle is in every haystack
Contains(needle, haystack) ==
    \E i \in 0..(Len(haystack) - Len(needle)) :
        SubSeq(haystack, i + 1, i + Len(needle)) = needle

\* kw.lower() in prd_lower
KeywordMatches(kw, prd_lower) == Contains(Lower(kw), prd_lower)

-----------------------------------------------------------------------------
(* IEEE 754 binary64 arithmetic on the non-negative values the score needs. *)
(* A float is a record [zero, m, e]: m is the 53-bit significand as a       *)
(* leading 1 followed by FracLimbs limbs of LimbBits bits each, most        *)
(* significant first (53 = 1 + 4 * 13); e is the exponent of the leading    *)
(* bit, so the value is m * 2^(e - 52). Limbs keep every intermediate below *)
(* 2^31.                                                                    *)

LimbBits == 13
FracLimbs == 4

RECURSIVE Pow2(_)
Pow2(n) == IF n = 0 THEN 1 ELSE 2 * Pow2(n - 1)

Limb == Pow2(LimbBits)

FloatZero == [zero |-> TRUE, m |-> <<>>, e |-> 0]

\* largest k >= 0 with b * 2^k <= a, for a >= b > 0
RECURSIVE ShiftDown(_, _)
ShiftDown(a, b) == IF 2 * b <= a THEN 1 + ShiftDown(a, 2 * b) ELSE 0

\* smallest k >= 0 with a * 2^k >= b, for a > 0
RECURSIVE ShiftUp(_, _)
ShiftUp(a, b) == IF a >= b THEN 0 ELSE 1 + ShiftUp(2 * a, b)

\* the number of binary digits of n > 0
RECURSIVE BitLength(_)
BitLength(n) == IF n <= 1 THEN n ELSE 1 + BitLength(n \div 2)

\* long division in base 2^LimbBits: n further quotient limbs of r / d
\* (r < d), and the remainder left
RECURSIVE LongDiv(_, _, _)
LongDiv(r, d, n) ==
    IF n = 0 THEN [limbs |-> <<>>, rem |-> r]
    ELSE LET rest == LongDiv((r * Limb) % d, d, n - 1)
         IN  [limbs |-> <<(r * Limb) \div d>> \o rest.limbs, rem |-> rest.rem]

\* limbs + 1: the sum's limbs and the carry out of the top limb
RECURSIVE Increment(_)
Increment(limbs) ==
    IF limbs = <<>> THEN [limbs |-> <<>>, carry |-> 1]
    ELSE LET low == limbs[Len(limbs)]
             high == SubSeq(limbs, 1, Len(limbs) - 1)
         IN  IF low + 1 < Limb
             THEN [limbs |-> Append(high, low + 1), carry |-> 0]
             ELSE LET up == Increment(high)
                  IN  [limbs |-> Append(up.limbs, 0), carry |-> up.carry]

\* the fraction limbs kept and, when round_up, incremented; a carry into the
\* leading bit renormalises to 1.000...0 with the exponent one higher
Rounded(frac, e, round_up) ==
    IF ~round_up THEN [zero |-> FALSE, m |-> <<1>> \o frac, e |-> e]
    ELSE LET up == Increment(frac)
         IN  [zero |-> FALSE, m |-> <<1>> \o up.limbs, e |-> e + up.carry]

\* a / b for ints a >= 0, b > 0: Python's true division, correctly rounded
\* (round half to even)
FloatDiv(a, b) ==
    IF a = 0 THEN FloatZero
    ELSE LET down == IF a >= b THEN ShiftDown(a, b) ELSE 0
             up == IF a >= b THEN 0 ELSE ShiftUp(a, b)
             num == a * Pow2(up)
             den == b * Pow2(down)
             q == LongDiv(num - den, den, FracLimbs)
             round_up == \/ 2 * q.rem > den
                         \/ 2 * q.rem = den /\ q.limbs[FracLimbs] % 2 = 1
         IN  Rounded(q.limbs, down - up, round_up)

\* limbs[1..i] * c + carry, as limbs; the first limb of the result holds
\* everything above the others and may exceed a limb
RECURSIVE MulLimbs(_, _, _, _)
MulLimbs(limbs, i, c, carry) ==
    LET t == limbs[i] * c + carry
    IN  IF i = 1 THEN <<t>>
        ELSE Append(MulLimbs(limbs, i - 1, c, t \div Limb), t % Limb)

\* f * c for an int 0 < c < 2^LimbBits (binary64 holds it exactly): the
\* exact product, shifted right by s bits to 53 bits and rounded (round half
\* to even)
FloatMulInt(f, c) ==
    IF f.zero THEN FloatZero
    ELSE LET p == MulLimbs(f.m, Len(f.m), c, 0)
             s == BitLength(p[1]) - 1
             cut == Pow2(s)
             frac == [k \in 1..FracLimbs |->
                         (p[k] % cut) * (Limb \div cut) + (p[k + 1] \div cut)]
             dropped == p[FracLimbs + 1] % cut
             round_up ==
                 /\ s > 0
                 /\ \/ 2 * dropped > cut
                    \/ 2 * dropped = cut /\ frac[FracLimbs] % 2 = 1
         IN  Rounded(frac, f.e + s, round_up)

\* floor(limb k of f.m * 2^(f.e - k * LimbBits)), k = 0 for the leading 1
LimbIntPart(f, k) ==
    LET shift == f.e - k * LimbBits
    IN  IF shift >= 0 THEN f.m[k + 1] * Pow2(shift)
        ELSE IF -shift >= LimbBits THEN 0
        ELSE f.m[k + 1] \div Pow2(-shift)

RECURSIVE SumLimbIntParts(_, _)
SumLimbIntParts(f, k) ==
    IF k < 0 THEN 0 ELSE LimbIntPart(f, k) + SumLimbIntParts(f, k - 1)

\* int(f): truncation toward zero
FloatToInt(f) ==
    IF f.zero \/ f.e < 0 THEN 0 ELSE SumLimbIntParts(f, FracLimbs)

-----------------------------------------------------------------------------
(* ValidatorAgent.validate                                                  *)

EmptyDict == [k \in {} |-> 0]

\* f"{severity}_weight"
WeightKey(severity) == severity \o "_weight"

\* Mutation of the weight lookup: an absent tier defaults to 1, not 0.
SectionWeightDefaultOne(self_scoring, severity) ==
    DictGet(self_scoring, WeightKey(severity), 1)

\* self.scoring.get(weight_key, 0)
SectionWeight(self_scoring, severity) ==
    DictGet(self_scoring, WeightKey(severity), 0)

\* Mutation of the keyword scan: the keyword is not lowercased.
KeywordsFoundCaseSensitive(keywords, prd_lower) ==
    SelectSeq(keywords, LAMBDA kw : Contains(kw, prd_lower))

\* [kw for kw in keywords if kw.lower() in prd_lower]
KeywordsFound(keywords, prd_lower) ==
    SelectSeq(keywords, LAMBDA kw : KeywordMatches(kw, prd_lower))

\* section['name'], section['required'], section['severity'] raise KeyError
\* on a section that lacks the key
SectionRaises(section) ==
    ~({"name", "required", "severity"} \subseteq DOMAIN section)

\* one iteration of the loop over the template's sections: the state st is
\* the locals results, total_score and max_score
ValidateSection(self_scoring, section, prd_lower, st) ==
    LET keywords == DictGet(section, "keywords", <<>>)
        keywords_found == KeywordsFound(keywords, prd_lower)
        found == Len(keywords_found) > 0
        section_weight == SectionWeight(self_scoring, section.severity)
        section_score == IF found THEN section_weight ELSE 0
        result == [section_name |-> section.name,
                   required |-> section.required,
                   found |-> found,
                   severity |-> section.severity,
                   keywords_found |-> keywords_found,
                   score |-> section_score]
    IN  [raised |-> FALSE,
         results |-> Append(st.results, result),
         total_score |-> st.total_score + section_score,
         max_score |-> IF section.required
                       THEN st.max_score + section_weight
                       ELSE st.max_score]

\* the loop from section i on; a KeyError leaves the loop
RECURSIVE ValidateLoop(_, _, _, _, _)
ValidateLoop(self_scoring, sections, i, prd_lower, st) ==
    IF i > Len(sections) THEN st
    ELSE IF SectionRaises(sections[i]) THEN [st EXCEPT !.raised = TRUE]
    ELSE ValidateLoop(self_scoring, sections, i + 1, prd_lower,
                      ValidateSection(self_scoring, sections[i], prd_lower, st))

\* Mutation of the score: a zero maximum counts as a complete document.
OverallScoreFullOnZero(total_score, max_score) ==
    IF max_score > 0
    THEN FloatToInt(FloatMulInt(FloatDiv(total_score, max_score), 100))
    ELSE 100

\* int((total_score / max_score * 100)) if max_score > 0 else 0
OverallScore(total_score, max_score) ==
    IF max_score > 0
    THEN FloatToInt(FloatMulInt(FloatDiv(total_score, max_score), 100))
    ELSE 0

\* validate(prd_text): the results and the overall score, or raised
validate(self_template, self_scoring, text) ==
    LET prd_lower == Lower(text)
        st == ValidateLoop(self_scoring,
                           DictGet(self_template, "sections", <<>>), 1,
                           prd_lower,
                           [raised |-> FALSE, results |-> <<>>,
                            total_score |-> 0, max_score |-> 0])
    IN  IF st.raised
        THEN [raised |-> TRUE, results |-> <<>>, overall_score |-> 0]
        ELSE [raised |-> FALSE, results |-> st.results,
              overall_score |-> OverallScore(st.total_score, st.max_score)]

-----------------------------------------------------------------------------
(* ValidatorAgent.format_report                                             *)

ReadyScore == 90
ImproveScore == 70

SectionNames(results) == [i \in 1..Len(results) |-> results[i].section_name]

MissingCritical(results) ==
    SelectSeq(results, LAMBDA r : ~r.found /\ r.required /\ r.severity = "critical")

MissingHigh(results) ==
    SelectSeq(results, LAMBDA r : ~r.found /\ r.required /\ r.severity = "high")

\* Mutation of the medium bucket: gated on required like the other two.
MissingMediumRequired(results) ==
    SelectSeq(results, LAMBDA r : ~r.found /\ r.required /\ r.severity = "medium")

MissingMedium(results) ==
    SelectSeq(results, LAMBDA r : ~r.found /\ r.severity = "medium")

FoundResults(results) == SelectSeq(results, LAMBDA r : r.found)

\* Mutation of the status thresholds: strict lower bounds.
StatusStrict(report_score) ==
    IF report_score > ReadyScore THEN "READY FOR REVIEW"
    ELSE IF report_score > ImproveScore THEN "NEEDS IMPROVEMENT"
    ELSE "NOT READY"

Status(report_score) ==
    IF report_score >= ReadyScore THEN "READY FOR REVIEW"
    ELSE IF report_score >= ImproveScore THEN "NEEDS IMPROVEMENT"
    ELSE "NOT READY"

StatusEmoji(report_score) ==
    IF report_score >= ReadyScore THEN "ok"
    ELSE IF report_score >= ImproveScore THEN "warning"
    ELSE "cross"

format_report(results, report_score) ==
    [score |-> report_score,
     status |-> Status(report_score),
     status_emoji |-> StatusEmoji(report_score),
     missing_critical |-> SectionNames(MissingCritical(results)),
     missing_high |-> SectionNames(MissingHigh(results)),
     missing_medium |-> SectionNames(MissingMedium(results)),
     found_sections |-> SectionNames(FoundResults(results)),
     total_sections |-> Len(results),
     found_count |-> Len(FoundResults(results)),
     missing_count |-> Len(results) - Len(FoundResults(results))]

-----------------------------------------------------------------------------
(* SkepticAgent.challenge and the orchestrator's pure parts                 *)

SkepticModel == "claude-sonnet-4-20250514"

\* what _build_user_prompt puts into the prompt: the score and status line,
\* the two missing lists (validation_report.get(..., [])) and the PRD text
build_user_prompt(text, report) ==
    [score |-> report.score,
     status |-> report.status,
     missing_critical |-> DictGet(report, "missing_critical", <<>>),
     missing_high |-> DictGet(report, "missing_high", <<>>),
     prd_content |-> text]

\* the dict challenge returns for an API response
ChallengeResult(response) ==
    [critique |-> response.text,
     model |-> SkepticModel,
     prompt_tokens |-> response.input_tokens,
     completion_tokens |-> response.output_tokens,
     total_tokens |-> response.input_tokens + response.output_tokens]

\* Mutation of the readiness test: the missing critical sections are not
\* looked at.
generate_summary_score_only(report) ==
    LET missing_critical == Len(report.missing_critical)
        missing_high == Len(report.missing_high)
    IN  [overall_status |->
             IF report.score >= ReadyScore
             THEN "READY FOR ENGINEERING REVIEW"
             ELSE IF report.score >= ImproveScore THEN "NEEDS ITERATION"
             ELSE "NOT READY",
         completeness_score |-> report.score,
         critical_gaps |-> missing_critical,
         high_priority_gaps |-> missing_high]

\* _generate_summary: the fields that depend on the report
generate_summary(report) ==
    LET missing_critical == Len(report.missing_critical)
        missing_high == Len(report.missing_high)
    IN  [overall_status |->
             IF report.score >= ReadyScore /\ missing_critical = 0
             THEN "READY FOR ENGINEERING REVIEW"
             ELSE IF report.score >= ImproveScore THEN "NEEDS ITERATION"
             ELSE "NOT READY",
         completeness_score |-> report.score,
         critical_gaps |-> missing_critical,
         high_priority_gaps |-> missing_high]

\* the review dict review_prd compiles (the timestamp is left out)
CompiledReview(report, crit, validator_score) ==
    [validation |-> report,
     technical_critique |-> crit.critique,
     summary |-> generate_summary(report),
     metadata |-> [validator_score |-> validator_score,
                   validator_status |-> report.status,
                   skeptic_tokens |-> crit.total_tokens,
                   model_used |-> crit.model]]

-----------------------------------------------------------------------------
(* Inputs: rubrics, documents, API responses.                               *)

Severities == {"critical", "high", "medium", "low"}

SectionName(i) == "s" \o ToString(i)

\* a section of the YAML template: the shape plus its name
Named(shape, i) ==
    [k \in DOMAIN shape \cup {"name"} |->
        IF k = "name" THEN SectionName(i) ELSE shape[k]]

\* the section lists of up to MaxSections sections drawn from shapes
SectionLists(shapes) ==
    UNION {{[i \in 1..n |-> Named(f[i], i)] : f \in [1..n -> shapes]} :
           n \in 0..MaxSections}

\* rubrics of the review pipeline: every required flag and severity, two
\* keyword lists, and a section without a severity key
PipelineShapes ==
    [required : BOOLEAN, severity : Severities,
     keywords : {<<<<"a">>>>, <<<<"B">>>>}]
    \cup {[required |-> TRUE, keywords |-> <<<<"a">>>>]}

FullScoring ==
    [critical_weight |-> 29, high_weight |-> 21,
     medium_weight |-> 9, low_weight |-> 1]

PartialScoring == [critical_weight |-> 40, high_weight |-> 20, medium_weight |-> 0]

PipelineTemplates ==
    {[sections |-> secs, scoring |-> sc] :
        secs \in SectionLists(PipelineShapes),
        sc \in {FullScoring, PartialScoring}}
    \cup {[sections |-> secs] : secs \in SectionLists(PipelineShapes)}

PipelineDocs == {<<>>, <<"a">>, <<"b">>, <<"A", "b">>}

\* rubrics of a validator used on its own: keyword lists with mixed case,
\* several keywords, an empty keyword, no keyword and no keywords key
AgentShapes ==
    {[required |-> FALSE, severity |-> "high",
      keywords |-> <<<<"B">>, <<"a">>>>],
     [required |-> TRUE, severity |-> "medium",
      keywords |-> <<<<"a", "b">>, <<>>>>],
     [required |-> TRUE, severity |-> "critical",
      keywords |-> <<<<"b", "A">>, <<"b">>, <<"A", "A">>>>],
     [required |-> TRUE, severity |-> "low", keywords |-> <<>>],
     [required |-> FALSE, severity |-> "medium"]}

AgentTemplates ==
    {[sections |-> secs, scoring |-> FullScoring] :
        secs \in SectionLists(AgentShapes)}
    \cup {[scoring |-> FullScoring]}

AgentDocs == {<<>>, <<"B">>, <<"a", "B">>, <<"b", "a">>}

Responses == {[text |-> "critique", input_tokens |-> 7, output_tokens |-> 5]}

-----------------------------------------------------------------------------
(* State machine.                                                           *)

NoReport == EmptyDict
NoCritique == EmptyDict
NoReview == EmptyDict

\* ValidatorAgent.__init__ has loaded the template; nothing has run yet
InitWith(templates, start) ==
    /\ template \in templates
    /\ scoring = DictGet(template, "scoring", EmptyDict)
    /\ pc = start
    /\ prd_text = <<>>
    /\ validation_results = <<>>
    /\ score = 0
    /\ validation_report = NoReport
    /\ critique = NoCritique
    /\ api_calls = <<>>
    /\ review = NoReview
    /\ printed = <<>>
    /\ saved = <<>>
    /\ log = <<>>
    /\ calls = <<>>

Init == InitWith(PipelineTemplates, "main")

InitAgent == InitWith(AgentTemplates, "ready")

CallRecord(text, v) ==
    [text |-> text, raised |-> v.raised, results |-> v.results,
     score |-> v.overall_score]

\* main: the PRD file is read and review_prd is called with its text
LoadPrd(text) ==
    /\ pc = "main"
    /\ pc' = "validate"
    /\ prd_text' = text
    /\ UNCHANGED <<template, scoring, validation_results, score,
                   validation_report, critique, api_calls, review, printed,
                   saved, log, calls>>

\* review_prd: validation_results, score = self.validator.validate(prd_text)
RunValidator ==
    /\ pc = "validate"
    /\ LET v == validate(template, scoring, prd_text)
       IN  /\ pc' = IF v.raised THEN "raised" ELSE "format_report"
           /\ validation_results' = v.results
           /\ score' = v.overall_score
           /\ calls' = Append(calls, CallRecord(prd_text, v))
    /\ log' = Append(log, "validate")
    /\ UNCHANGED <<template, scoring, prd_text, validation_report, critique,
                   api_calls, review, printed, saved>>

\* review_prd: validation_report = self.validator.format_report(...)
RunFormatReport ==
    /\ pc = "format_report"
    /\ pc' = "challenge"
    /\ validation_report' = format_report(validation_results, score)
    /\ log' = Append(log, "format_report")
    /\ UNCHANGED <<template, scoring, prd_text, validation_results, score,
                   critique, api_calls, review, printed, saved, calls>>

\* a call of client.messages.create by challenge: what it was given and
\* whether the API answered or raised
ApiCall(text, report, outcome) ==
    [validation_report |-> report,
     user_prompt |-> build_user_prompt(text, report),
     outcome |-> outcome]

\* review_prd: critique = self.skeptic.challenge(prd_text, validation_report),
\* the API answering
RunSkeptic ==
    /\ pc = "challenge"
    /\ \E response \in Responses :
           critique' = ChallengeResult(response)
    /\ api_calls' = Append(api_calls,
                           ApiCall(prd_text, validation_report, "answered"))
    /\ pc' = "compile"
    /\ log' = Append(log, "challenge")
    /\ UNCHANGED <<template, scoring, prd_text, validation_results, score,
                   validation_report, review, printed, saved, calls>>

\* Mutation of the failing call: the exception is swallowed and the review
\* goes on with an empty critique.
RunSkepticSwallows ==
    /\ pc = "challenge"
    /\ api_calls' = Append(api_calls,
                           ApiCall(prd_text, validation_report, "raised"))
    /\ critique' = ChallengeResult([text |-> "", input_tokens |-> 0,
                                    output_tokens |-> 0])
    /\ pc' = "compile"
    /\ log' = Append(log, "challenge")
    /\ UNCHANGED <<template, scoring, prd_text, validation_results, score,
                   validation_report, review, printed, saved, calls>>

\* the same call, the API raising: nothing catches it, neither challenge
\* nor review_prd nor main
RunSkepticRaises ==
    /\ pc = "challenge"
    /\ api_calls' = Append(api_calls,
                           ApiCall(prd_text, validation_report, "raised"))
    /\ pc' = "raised"
    /\ log' = Append(log, "challenge")
    /\ UNCHANGED <<template, scoring, prd_text, validation_results, score,
                   validation_report, critique, review, printed, saved, calls>>

\* review_prd: the review dict is compiled and returned
CompileReview ==
    /\ pc = "compile"
    /\ pc' = "print_review"
    /\ review' = CompiledReview(validation_report, critique, score)
    /\ log' = Append(log, "compile")
    /\ UNCHANGED <<template, scoring, prd_text, validation_results, score,
                   validation_report, critique, api_calls, printed, saved,
                   calls>>

\* main: orchestrator.print_review(review)
PrintReview ==
    /\ pc = "print_review"
    /\ pc' = "save_review"
    /\ printed' = Append(printed, review)
    /\ log' = Append(log, "print_review")
    /\ UNCHANGED <<template, scoring, prd_text, validation_results, score,
                   validation_report, critique, api_calls, review, saved,
                   calls>>

\* main: orchestrator.save_review(review)
SaveReview ==
    /\ pc = "save_review"
    /\ pc' = "done"
    /\ saved' = Append(saved, review)
    /\ log' = Append(log, "save_review")
    /\ UNCHANGED <<template, scoring, prd_text, validation_results, score,
                   validation_report, critique, api_calls, review, printed,
                   calls>>

Next ==
    \/ \E text \in PipelineDocs : LoadPrd(text)
    \/ RunValidator
    \/ RunFormatReport
    \/ RunSkeptic
    \/ RunSkepticRaises
    \/ CompileReview
    \/ PrintReview
    \/ SaveReview

Spec == Init /\ [][Next]_vars

\* Mutation of a validate call: the section list is popped from the template
\* instead of read.
CallValidatePops(text) ==
    /\ pc = "ready"
    /\ Len(calls) < MaxCalls
    /\ LET v == validate(template, scoring, text)
       IN  /\ pc' = IF v.raised THEN "raised" ELSE "validated"
           /\ validation_results' = v.results
           /\ score' = v.overall_score
           /\ calls' = Append(calls, CallRecord(text, v))
    /\ prd_text' = text
    /\ template' = [k \in DOMAIN template \ {"sections"} |-> template[k]]
    /\ UNCHANGED <<scoring, validation_report, critique, api_calls, review,
                   printed, saved, log>>

\* a caller of the agent (the test script): results, score = agent.validate(text)
CallValidate(text) ==
    /\ pc = "ready"
    /\ Len(calls) < MaxCalls
    /\ LET v == validate(template, scoring, text)
       IN  /\ pc' = IF v.raised THEN "raised" ELSE "validated"
           /\ validation_results' = v.results
           /\ score' = v.overall_score
           /\ calls' = Append(calls, CallRecord(text, v))
    /\ prd_text' = text
    /\ UNCHANGED <<template, scoring, validation_report, critique, api_calls,
                   review, printed, saved, log>>

\* the caller: report = agent.format_report(results, score)
CallFormatReport ==
    /\ pc = "validated"
    /\ pc' = "ready"
    /\ validation_report' = format_report(validation_results, score)
    /\ UNCHANGED <<template, scoring, prd_text, validation_results, score,
                   critique, api_calls, review, printed, saved, log, calls>>

NextAgent ==
    \/ \E text \in AgentDocs : CallValidate(text)
    \/ CallFormatReport

SpecAgent == InitAgent /\ [][NextAgent]_vars

-----------------------------------------------------------------------------
(* What the properties below speak of, taken from the loaded rubric and     *)
(* from what validate returned, not from how validate computes it.          *)

RubricSections == IF "sections" \in DOMAIN template THEN template.sections ELSE <<>>

\* every section carries the keys the data model requires
WellFormedRubric ==
    \A j \in 1..Len(RubricSections) :
        {"name", "required", "severity"} \subseteq DOMAIN RubricSections[j]

\* the weight the rubric configures for a severity tier, 0 when it has none
TierWeight(severity) ==
    IF "scoring" \in DOMAIN template
       /\ (severity \o "_weight") \in DOMAIN template.scoring
    THEN template.scoring[severity \o "_weight"]
    ELSE 0

RubricKeywords(j) ==
    IF "keywords" \in DOMAIN RubricSections[j]
    THEN RubricSections[j].keywords ELSE <<>>

\* sum of the weights of the required sections
RECURSIVE PossibleUpTo(_)
PossibleUpTo(j) ==
    IF j = 0 THEN 0
    ELSE PossibleUpTo(j - 1)
         + (IF RubricSections[j].required
            THEN TierWeight(RubricSections[j].severity) ELSE 0)

PossibleTotal == PossibleUpTo(Len(RubricSections))

\* sum of the section scores of a result list
RECURSIVE EarnedUpTo(_, _)
EarnedUpTo(results, j) ==
    IF j = 0 THEN 0 ELSE EarnedUpTo(results, j - 1) + results[j].score

EarnedTotal(results) == EarnedUpTo(results, Len(results))

\* the validate calls that returned
Returned == {i \in 1..Len(calls) : ~calls[i].raised}

\* format_report has produced the report in validation_report
Formatted == "status" \in DOMAIN validation_report

Lowercase == [c \in {"a", "b", "A", "B"} |-> IF c \in {"a", "A"} THEN "a" ELSE "b"]

\* kw, lowercased, occurs in text, lowercased, at some offset
OccursIn(kw, text) ==
    \E k \in 0..Len(text) :
        /\ k + Len(kw) <= Len(text)
        /\ \A t \in 1..Len(kw) : Lowercase[text[k + t]] = Lowercase[kw[t]]

\* the keywords of a list that occur in text, in list order
RECURSIVE Occurring(_, _)
Occurring(keywords, text) ==
    IF keywords = <<>> THEN <<>>
    ELSE (IF OccursIn(Head(keywords), text) THEN <<Head(keywords)>> ELSE <<>>)
         \o Occurring(Tail(keywords), text)

\* the names, in result order, of the results that satisfy Keep
NamesWhere(results, Keep(_)) ==
    LET upto[j \in 0..Len(results)] ==
            IF j = 0 THEN <<>>
            ELSE upto[j - 1]
                 \o (IF Keep(results[j]) THEN <<results[j].section_name>> ELSE <<>>)
    IN  upto[Len(results)]

-----------------------------------------------------------------------------
(* C1: for every document and rubric whose required weights sum to more     *)
(* than 0, the overall score validate returns lies in 0..100.               *)
(* The code breaks it: found optional sections are earned but not possible. *)
C1_ScoreWithinPercent ==
    \A i \in Returned :
        PossibleTotal > 0 => calls[i].score >= 0 /\ calls[i].score <= 100

(* C2: when possible_total > 0 the overall score equals                     *)
(* (earned_total * 100) div possible_total, earned_total the sum of the     *)
(* scores of the found sections, possible_total the sum of the weights of   *)
(* the required sections. The code breaks it: it divides and multiplies in  *)
(* binary64 and truncates the rounded product.                              *)
C2_ScoreIsIntegerDivision ==
    \A i \in Returned :
        PossibleTotal > 0 =>
            calls[i].score = (EarnedTotal(calls[i].results) * 100) \div PossibleTotal

(* C3: whenever possible_total is 0, validate returns overall score 0 and   *)
(* raises no error, even if optional sections were found and earned_total   *)
(* is above 0; for an empty rubric format_report yields empty               *)
(* missing_critical, missing_high, missing_medium and found_sections.       *)
C3_ZeroPossibleScoresZero ==
    /\ \A i \in 1..Len(calls) :
           (WellFormedRubric /\ PossibleTotal = 0) =>
               ~calls[i].raised /\ calls[i].score = 0
    /\ (Formatted /\ RubricSections = <<>>) =>
           /\ validation_report.score = 0
           /\ validation_report.missing_critical = <<>>
           /\ validation_report.missing_high = <<>>
           /\ validation_report.missing_medium = <<>>
           /\ validation_report.found_sections = <<>>

\* an optional section was found and earned a weight, nothing was possible,
\* and the report of that run has been formatted
C3_Witness ==
    /\ Formatted
    /\ \E i \in Returned :
           /\ PossibleTotal = 0
           /\ EarnedTotal(calls[i].results) > 0
           /\ calls[i].score = 0

(* C4: for every rubric section, keywords_found is exactly the subsequence, *)
(* in rubric keyword order, of the section's keywords whose lowercased form *)
(* is a substring of the lowercased document, and found is true iff that    *)
(* list is non-empty; a section with no keywords is never found.            *)
C4_KeywordsFoundAreTheOccurring ==
    \A i \in Returned :
        /\ Len(calls[i].results) = Len(RubricSections)
        /\ \A j \in 1..Len(RubricSections) :
               LET r == calls[i].results[j]
               IN  /\ r.keywords_found = Occurring(RubricKeywords(j), calls[i].text)
                   /\ r.found <=> (r.keywords_found # <<>>)
                   /\ RubricKeywords(j) = <<>> => ~r.found

\* a section with three keywords of which a proper, non-empty part matched,
\* one of them only through lowercasing, beside a section with no keywords
C4_Witness ==
    \E i \in Returned :
        \E j, k \in 1..Len(calls[i].results) :
            /\ Len(RubricKeywords(j)) = 3
            /\ Len(calls[i].results[j].keywords_found) \in {1, 2}
            /\ \E kw \in {calls[i].results[j].keywords_found[n] :
                             n \in 1..Len(calls[i].results[j].keywords_found)} :
                   ~Contains(kw, calls[i].text)
            /\ RubricKeywords(k) = <<>>
            /\ ~calls[i].results[k].found

(* C5: format_report partitions the results, in result order:               *)
(* missing_critical is exactly the required, not found, critical sections;  *)
(* missing_high exactly the required, not found, high ones; missing_medium  *)
(* exactly the not found medium ones whatever their required flag;          *)
(* found_sections exactly the found ones.                                   *)
C5_ReportPartitionsResults ==
    Formatted =>
        /\ validation_report.missing_critical =
               NamesWhere(validation_results,
                          LAMBDA r : r.required /\ ~r.found /\ r.severity = "critical")
        /\ validation_report.missing_high =
               NamesWhere(validation_results,
                          LAMBDA r : r.required /\ ~r.found /\ r.severity = "high")
        /\ validation_report.missing_medium =
               NamesWhere(validation_results,
                          LAMBDA r : ~r.found /\ r.severity = "medium")
        /\ validation_report.found_sections =
               NamesWhere(validation_results, LAMBDA r : r.found)

\* an optional medium section is missing and listed, beside a found section
C5_Witness ==
    /\ Formatted
    /\ \E j, k \in 1..Len(validation_results) :
           /\ validation_results[j].severity = "medium"
           /\ ~validation_results[j].required
           /\ ~validation_results[j].found
           /\ validation_report.missing_medium = <<validation_results[j].section_name>>
           /\ validation_results[k].found
           /\ validation_report.found_sections = <<validation_results[k].section_name>>

(* C6: the status label depends on the score alone, with inclusive lower    *)
(* bounds: 90 and above READY FOR REVIEW, 70 to 89 NEEDS IMPROVEMENT, below *)
(* 70 NOT READY, whichever sections are missing.                            *)
C6_StatusFromScoreAlone ==
    Formatted =>
        /\ validation_report.score = score
        /\ score >= 90 => validation_report.status = "READY FOR REVIEW"
        /\ (score >= 70 /\ score <= 89) =>
               validation_report.status = "NEEDS IMPROVEMENT"
        /\ score < 70 => validation_report.status = "NOT READY"

\* the score is exactly 90 and the label is READY FOR REVIEW
C6_Witness ==
    /\ Formatted
    /\ score = 90
    /\ validation_report.status = "READY FOR REVIEW"

C9_EmptyDocumentFindsNothing ==
    \A i \in Returned :
        (calls[i].text = <<>> /\ RubricSections # <<>>) =>
            /\ \A j \in 1..Len(calls[i].results) : ~calls[i].results[j].found
            /\ calls[i].score = 0

(* C9, amended: for the empty document and every non-empty rubric none of   *)
(* whose keywords is the empty string, every section is not found and the   *)
(* overall score is 0.                                                      *)
C9_EmptyDocumentFindsNoNonEmptyKeyword ==
    \A i \in Returned :
        (/\ calls[i].text = <<>>
         /\ RubricSections # <<>>
         /\ \A j \in 1..Len(RubricSections) :
                \A n \in 1..Len(RubricKeywords(j)) : RubricKeywords(j)[n] # <<>>) =>
            /\ Len(calls[i].results) = Len(RubricSections)
            /\ \A j \in 1..Len(calls[i].results) : ~calls[i].results[j].found
            /\ calls[i].score = 0

\* the empty document validated against a rubric with a required, weighted
\* section that has keywords, none of them empty
C9_Witness ==
    \E i \in Returned :
        /\ calls[i].text = <<>>
        /\ PossibleTotal > 0
        /\ \E j \in 1..Len(RubricSections) : Len(RubricKeywords(j)) = 3
        /\ \A j \in 1..Len(RubricSections) :
               \A n \in 1..Len(RubricKeywords(j)) : RubricKeywords(j)[n] # <<>>
        /\ \A j \in 1..Len(calls[i].results) : ~calls[i].results[j].found

(* C10: in every run of the review pipeline the steps occur in the order    *)
(* validate, format_report, challenge, compile, print_review, save_review;  *)
(* the remote call is made at most once, with the report format_report      *)
(* produced, and never again after it raised; and once it or an earlier     *)
(* step raised, no review is compiled, printed or saved.                    *)
PipelineOrder ==
    <<"validate", "format_report", "challenge", "compile", "print_review",
      "save_review">>

C10_PipelineOrder ==
    /\ Len(log) <= Len(PipelineOrder)
    /\ log = SubSeq(PipelineOrder, 1, Len(log))
    /\ Len(api_calls) = (IF Len(log) >= 3 THEN 1 ELSE 0)
    /\ \A n \in 1..Len(api_calls) :
           /\ api_calls[n].validation_report = validation_report
           /\ validation_report = format_report(validation_results, score)
    /\ Len(printed) = (IF Len(log) >= 5 THEN 1 ELSE 0)
    /\ Len(saved) = (IF Len(log) >= 6 THEN 1 ELSE 0)
    /\ (Len(log) >= 4) <=> ("summary" \in DOMAIN review)
    /\ \A n \in 1..Len(printed) : printed[n] = review
    /\ \A n \in 1..Len(saved) : saved[n] = review
    /\ ((\E n \in 1..Len(api_calls) : api_calls[n].outcome = "raised")
        \/ (\E i \in 1..Len(calls) : calls[i].raised)) =>
           /\ "summary" \notin DOMAIN review
           /\ printed = <<>>
           /\ saved = <<>>

\* a run that went through all six steps with one answered remote call
C10_Witness ==
    /\ pc = "done"
    /\ log = PipelineOrder
    /\ Len(api_calls) = 1
    /\ api_calls[1].outcome = "answered"
    /\ saved = <<review>>

(* C11: the summary's overall_status is READY FOR ENGINEERING REVIEW iff    *)
(* the score is at least 90 and missing_critical is empty, NOT READY iff    *)
(* the score is below 70, and NEEDS ITERATION otherwise; so no review is    *)
(* declared READY FOR ENGINEERING REVIEW while a required critical section  *)
(* is missing, even when the validator's label is READY FOR REVIEW; and     *)
(* critical_gaps and high_priority_gaps are the lengths of the report's     *)
(* missing_critical and missing_high lists.                                 *)
C11_SummaryReadiness ==
    ("summary" \in DOMAIN review) =>
        LET summary == review.summary
            report == review.validation
        IN  /\ report = validation_report
            /\ (summary.overall_status = "READY FOR ENGINEERING REVIEW")
                   <=> (report.score >= 90 /\ report.missing_critical = <<>>)
            /\ (summary.overall_status = "NOT READY") <=> (report.score < 70)
            /\ (~(report.score >= 90 /\ report.missing_critical = <<>>)
                /\ ~(report.score < 70))
                   => summary.overall_status = "NEEDS ITERATION"
            /\ (\E j \in 1..Len(validation_results) :
                    /\ validation_results[j].required
                    /\ validation_results[j].severity = "critical"
                    /\ ~validation_results[j].found)
                   => summary.overall_status # "READY FOR ENGINEERING REVIEW"
            /\ summary.critical_gaps = Len(report.missing_critical)
            /\ summary.high_priority_gaps = Len(report.missing_high)
            /\ summary.completeness_score = report.score

\* a compiled review whose validator label is READY FOR REVIEW while a
\* required critical section is missing: the summary says NEEDS ITERATION
C11_Witness ==
    /\ "summary" \in DOMAIN review
    /\ review.validation.status = "READY FOR REVIEW"
    /\ review.validation.score >= 90
    /\ review.validation.missing_critical # <<>>
    /\ review.summary.critical_gaps = Len(review.validation.missing_critical)
    /\ review.summary.overall_status = "NEEDS ITERATION"

====
